---- MODULE Spec2Model ----
(***************************************************************************)
(* Model of src/evaluator.py: the solution evaluator of the production and *)
(* transportation scheduling problem (evaluate, get_travel_time) and the   *)
(* parameter-sweep drivers that call it.                                   *)
(*                                                                         *)
(* Numbers.  The program computes with floats; the model computes with     *)
(* exact fixed-point numbers.  Every quantity (demand, capacity, lifespan, *)
(* time) is an integer number of ticks, One ticks making up 1.0.  A tick   *)
(* is 1e-6 / RateLcm, so that the tolerance EPS_VALUE = 1e-6 is            *)
(* representable and a division by any rate the model uses is exact.       *)
(***************************************************************************)
EXTENDS Integers, Sequences, FiniteSets, TLC

VARIABLES
    locations,          \* argument: the instance, a list of location records
    capacity,           \* argument
    lifespan,           \* argument
    rate,               \* argument
    solution,           \* argument: list of routes of batches of indices
    rounding_func,      \* argument: "none", "floor" or "round2"
    check_feasibility,  \* argument
    pc,                 \* position in evaluate
    plant,              \* loop variable of line 87 (0-based)
    bidx,               \* position of the loop of line 94 in solution[plant] (1-based)
    curr_p_finish,      \* local of evaluate
    curr_t_finish,      \* local of evaluate
    makespan,           \* local of evaluate
    result,             \* what evaluate returned, or how it ended
    coverage,           \* history: outcome of the customer check of lines 66-82
    last,               \* history: the numbers of the batch processed last
    finish,             \* history: curr_t_finish at line 134, per plant
    sweep               \* state of a parameter-sweep driver

vars == << locations, capacity, lifespan, rate, solution, rounding_func,
           check_feasibility, pc, plant, bidx, curr_p_finish, curr_t_finish,
           makespan, result, coverage, last, finish, sweep >>

inputs == << locations, capacity, lifespan, rate, solution, rounding_func,
             check_feasibility >>

----------------------------------------------------------------------------
(* Bounds of the model *)

MaxVisits    == 2   \* Init: customer indices written in a solution
MaxBatches   == 2   \* Init: batches of a solution, over all routes
MaxCustomers == 3   \* SchedInit: customers of an instance

----------------------------------------------------------------------------
(* Fixed-point numbers *)

Rates     == {1, 2}
RateLcm   == 2 * 2                  \* every rate r and 2r divides it
One       == 1000000 * RateLcm      \* ticks of 1.0
EPS_VALUE == One \div 1000000       \* 0.000001
INF_RETURN == "inf"
FAULT      == "fault"               \* evaluate ended in a raised exception
NONE       == "none"

Max(a, b) == IF a >= b THEN a ELSE b

\* how a call ends: a number returned, INF_RETURN returned, or an exception
Returned(v) == [end |-> "ok", value |-> v]
Ended(e)    == [end |-> e]

RECURSIVE IsqrtIn(_, _, _)
\* the largest r in lo..hi with r*r <= n, given lo*lo <= n < (hi+1)*(hi+1)
IsqrtIn(n, lo, hi) ==
    IF lo = hi THEN lo
    ELSE LET mid == (lo + hi + 1) \div 2
         IN  IF mid * mid <= n THEN IsqrtIn(n, mid, hi)
                               ELSE IsqrtIn(n, lo, mid - 1)

Isqrt(n) == IsqrtIn(n, 0, 46340)

\* nearest integer to sqrt(n); sqrt(n) is never exactly half-way
RoundSqrt(n) == LET r == Isqrt(n) IN IF n - r * r > r THEN r + 1 ELSE r

----------------------------------------------------------------------------
(* The inputs the model draws *)

Capacities    == {4 * One - EPS_VALUE, 4 * One}
Lifespans     == {2 * One - EPS_VALUE, 2 * One}
RoundingFuncs == {"none", "floor", "round2"}
PlantCounts   == {1, 2}

PlantRecord   == [x |-> 0, y |-> 0, demand |-> 0]
\* the customers an instance is made of: two at distance sqrt(2) from the
\* plants, one at distance 2
CustomerKinds == << [x |-> 1, y |-> 1, demand |-> One],
                    [x |-> 1, y |-> 1, demand |-> 4 * One],
                    [x |-> 0, y |-> 2, demand |-> One] >>

SeqsUpTo(S, n) == UNION {[1..k -> S] : k \in 0..n}

\* the instances of np plants and at most nc customers: the plants, then the
\* customers (listed in the order of CustomerKinds: the order of the customers
\* of an instance is immaterial, a solution names them in any order)
Instances(np, nc) ==
    {[i \in 1..np |-> PlantRecord] \o [i \in 1..Len(f) |-> CustomerKinds[f[i]]] :
        f \in {g \in SeqsUpTo(1..Len(CustomerKinds), nc) :
                  \A i \in 1..(Len(g) - 1) : g[i] <= g[i + 1]}}

RECURSIVE Flatten(_)
\* a list of lists, concatenated
Flatten(ss) == IF ss = <<>> THEN <<>> ELSE Head(ss) \o Flatten(Tail(ss))

\* lines 67-70: the indices of all batches of all routes, in the order written
VisitedCustomers(sol) == Flatten(Flatten(sol))

RECURSIVE SumSeq(_)
SumSeq(f) == IF f = <<>> THEN 0 ELSE Head(f) + SumSeq(Tail(f))

\* the ways to write total as a sum of k numbers >= 0, in order
Compositions(total, k) == {f \in [1..k -> 0..total] : SumSeq(f) = total}

\* seq cut into consecutive pieces of the lengths lens
Cut(seq, lens) ==
    [i \in 1..Len(lens) |->
        SubSeq(seq, SumSeq(SubSeq(lens, 1, i - 1)) + 1,
                    SumSeq(SubSeq(lens, 1, i)))]

\* the solutions of np routes that write the indices visits in this order,
\* in at most nb batches (empty batches and empty routes included)
Arrangements(np, visits, nb) ==
    UNION {UNION {{Cut(Cut(visits, lens), cnts) : cnts \in Compositions(k, np)} :
                     lens \in Compositions(Len(visits), k)} : k \in 0..nb}

\* no index is written twice
Injective(seq) == \A i, j \in 1..Len(seq) : seq[i] = seq[j] => i = j

----------------------------------------------------------------------------
(* get_travel_time, lines 19-42 *)

Loc(locs, i) == locs[i + 1]          \* locations[i], 0-based
ValidIndex(locs, i) == 0 <= i /\ i < Len(locs)

Dist2(locs, a, b) ==
    (Loc(locs, a).x - Loc(locs, b).x) * (Loc(locs, a).x - Loc(locs, b).x)
    + (Loc(locs, a).y - Loc(locs, b).y) * (Loc(locs, a).y - Loc(locs, b).y)

\* sqrt(d2) in ticks, as the float the program holds: correct to 0.001
SqrtTicks(d2) == RoundSqrt(d2 * 1000000) * (One \div 1000)
\* floor(sqrt(d2)) in ticks
FloorTicks(d2) == Isqrt(d2) * One
\* round(sqrt(d2), 2) in ticks
Round2Ticks(d2) == RoundSqrt(d2 * 10000) * (One \div 100)

Rounded(rf, d2) ==
    CASE rf = "none"   -> SqrtTicks(d2)
      [] rf = "floor"  -> FloorTicks(d2)
      [] rf = "round2" -> Round2Ticks(d2)

\* Rounded, tabulated once over the squared distances of the model's points
Points == {<<PlantRecord.x, PlantRecord.y>>}
          \cup {<<CustomerKinds[k].x, CustomerKinds[k].y>> :
                   k \in 1..Len(CustomerKinds)}
SquaredDistances ==
    {(a[1] - b[1]) * (a[1] - b[1]) + (a[2] - b[2]) * (a[2] - b[2]) :
        a \in Points, b \in Points}
RoundedTable ==
    [rf \in RoundingFuncs |-> [d2 \in SquaredDistances |-> Rounded(rf, d2)]]

get_travel_time(locs, a, b, rf) == RoundedTable[rf][Dist2(locs, a, b)]

----------------------------------------------------------------------------
(* evaluate, lines 63-82: the customer check *)

\* line 71
SortedVisits(sol) == SortSeq(VisitedCustomers(sol), LAMBDA a, b : a < b)

\* CoveragePasses without the loop of lines 78-82
CoveragePassesCountOnly(locs, sol) ==
    Len(SortedVisits(sol)) = Len(locs) - Len(sol)

\* lines 73-82: TRUE when neither return of the check is taken
CoveragePasses(locs, sol) ==
    LET nplants == Len(sol)
        visited_customers == SortedVisits(sol)
    IN  /\ Len(visited_customers) = Len(locs) - nplants
        /\ \A i \in 0..(Len(visited_customers) - 1) :
               visited_customers[i + 1] = i + nplants

----------------------------------------------------------------------------
(* evaluate, lines 94-132: one batch *)

RECURSIVE SumDemand(_, _)
\* line 95, the sum of the demands of the batch
SumDemand(locs, batch) ==
    IF batch = <<>> THEN 0
    ELSE Loc(locs, Head(batch)).demand + SumDemand(locs, Tail(batch))

\* line 95 raises IndexError on an index outside the instance
DemandFault(locs, batch) ==
    \E k \in 1..Len(batch) : ~ValidIndex(locs, batch[k])

\* CapacityRejects without its check_feasibility
CapacityRejectsUnguarded(chk, cap, p_sum) == cap + EPS_VALUE <= p_sum

\* line 97, the condition of the if
CapacityRejects(chk, cap, p_sum) == chk /\ cap + EPS_VALUE <= p_sum

\* ProductionTime with the rate multiplied
ProductionTimeTimesRate(p_sum, r) == p_sum * r

\* line 102
ProductionTime(p_sum, r) == p_sum \div r

\* line 104 raises IndexError on batch[0] of an empty batch
TravelFault(batch) == batch = <<>>

RECURSIVE LegSum(_, _, _, _)
\* line 105: the legs batch[cust-1] -> batch[cust], cust = k..len(batch)-1
\* (0-based), each passed through the rounding function before the sum
LegSum(locs, batch, k, rf) ==
    IF k > Len(batch) - 1 THEN 0
    ELSE get_travel_time(locs, batch[k], batch[k + 1], rf)
         + LegSum(locs, batch, k + 1, rf)

\* OutboundTime with line 113 moved before line 107
OutboundTimeWithReturn(locs, p, batch, rf) ==
    get_travel_time(locs, p, batch[1], rf) + LegSum(locs, batch, 1, rf)
    + get_travel_time(locs, batch[Len(batch)], p, rf)

\* lines 104-105: t_time before the return leg is added
OutboundTime(locs, p, batch, rf) ==
    get_travel_time(locs, p, batch[1], rf) + LegSum(locs, batch, 1, rf)

\* line 107, the condition of the if
LifespanRejects(chk, life, t_time) == chk /\ life + EPS_VALUE <= t_time

\* MaxDelay without the time the delivery takes
MaxDelayWholeLifespan(life, t_out) == Max(0, life)

\* line 112
MaxDelay(life, t_out) == Max(0, life - t_out)

\* line 113: the leg added to t_time after the check of line 107
ReturnLeg(locs, p, batch, rf) ==
    get_travel_time(locs, batch[Len(batch)], p, rf)

\* NextFinish with the production never delayed
NextFinishNoDelay(cp, ct, p_time, t_full, max_delay) ==
    LET earliest_p_finish == cp + p_time
    IN  IF ct <= earliest_p_finish
        THEN [p |-> cp + p_time, t |-> (cp + p_time) + t_full]
        ELSE [p |-> earliest_p_finish, t |-> ct + t_full]

\* NextFinish with the vehicle leaving when the production ends, back or not
NextFinishOverlap(cp, ct, p_time, t_full, max_delay) ==
    [p |-> cp + p_time, t |-> (cp + p_time) + t_full]

\* lines 115-124
NextFinish(cp, ct, p_time, t_full, max_delay) ==
    LET earliest_p_finish == cp + p_time
    IN  IF ct <= earliest_p_finish
        THEN [p |-> cp + p_time, t |-> (cp + p_time) + t_full]
        ELSE [p |-> Max(earliest_p_finish, ct - max_delay), t |-> ct + t_full]

\* lines 115-132: the batch is scheduled; its numbers and the next state
Scheduled(cp, ct, p_time, t_out, t_full, max_delay, nxt) ==
    [end |-> "ok", p_time |-> p_time, t_out |-> t_out, t_full |-> t_full,
     max_delay |-> max_delay, prev_p |-> cp, prev_t |-> ct,
     next_p |-> nxt.p, next_t |-> nxt.t]

\* lines 107-132, t_time being t_out and the return leg t_back
AfterTravel(life, chk, cp, ct, p_time, t_out, t_back) ==
    IF LifespanRejects(chk, life, t_out)
    THEN [end |-> INF_RETURN, why |-> "lifespan"]
    ELSE Scheduled(cp, ct, p_time, t_out, t_out + t_back, MaxDelay(life, t_out),
                   NextFinish(cp, ct, p_time, t_out + t_back, MaxDelay(life, t_out)))

\* lines 97-132, the sum of line 95 being p_sum
AfterDemand(locs, cap, life, r, rf, chk, p, batch, cp, ct, p_sum) ==
    IF CapacityRejects(chk, cap, p_sum)
    THEN [end |-> INF_RETURN, why |-> "capacity"]
    ELSE IF TravelFault(batch) THEN [end |-> FAULT]
    ELSE AfterTravel(life, chk, cp, ct, ProductionTime(p_sum, r),
                     OutboundTime(locs, p, batch, rf),
                     ReturnLeg(locs, p, batch, rf))

\* lines 95-132 for one batch, from the state (cp, ct): how the batch ends
\* ("fault", "inf" and the limit exceeded, or "ok") and, when ok, its numbers
\* and the next state
BatchStep(locs, cap, life, r, rf, chk, p, batch, cp, ct) ==
    IF DemandFault(locs, batch) THEN [end |-> FAULT]
    ELSE AfterDemand(locs, cap, life, r, rf, chk, p, batch, cp, ct,
                     SumDemand(locs, batch))

----------------------------------------------------------------------------
(* evaluate as a state machine *)

NoBatch == [end |-> NONE]
NoSweep == [driver |-> NONE]

\* evaluate is entered
Entered ==
    /\ pc = "start"
    /\ plant = 0
    /\ bidx = 1
    /\ curr_p_finish = 0
    /\ curr_t_finish = 0
    /\ makespan = 0
    /\ result = Ended(NONE)
    /\ coverage = NONE
    /\ last = NoBatch
    /\ finish = <<>>
    /\ sweep = NoSweep

\* any solution: indices of plants, of customers and one past the instance,
\* written any number of times
Init ==
    /\ \E np \in PlantCounts :
          /\ locations \in Instances(np, MaxVisits)
          /\ \E visits \in SeqsUpTo(0..Len(locations), MaxVisits) :
                solution \in Arrangements(np, visits, MaxBatches)
    /\ capacity \in Capacities
    /\ lifespan \in Lifespans
    /\ rate \in Rates
    /\ rounding_func \in RoundingFuncs
    /\ check_feasibility \in BOOLEAN
    /\ Entered

\* the solutions that write every customer at most once, on longer routes
SchedInit ==
    /\ \E np \in PlantCounts :
          /\ locations \in Instances(np, MaxCustomers)
          /\ \E visits \in SeqsUpTo(np..(Len(locations) - 1), MaxCustomers) :
                /\ Injective(visits)
                /\ solution \in Arrangements(np, visits, MaxCustomers)
    /\ capacity = 4 * One
    /\ lifespan = 2 * One
    /\ rate \in Rates
    /\ rounding_func \in RoundingFuncs
    /\ check_feasibility \in BOOLEAN
    /\ Entered

\* lines 66-82, a return taken: the customers visited are not the customers
CheckCustomersFail ==
    /\ pc = "start"
    /\ check_feasibility
    /\ ~CoveragePasses(locations, solution)
    /\ coverage' = "fail"
    /\ result' = Ended(INF_RETURN)
    /\ pc' = "done"
    /\ UNCHANGED << inputs, plant, bidx, curr_p_finish, curr_t_finish,
                    makespan, last, finish, sweep >>

\* lines 66-84, no return taken
CheckCustomersPass ==
    /\ pc = "start"
    /\ check_feasibility
    /\ CoveragePasses(locations, solution)
    /\ coverage' = "pass"
    /\ makespan' = 0
    /\ plant' = 0
    /\ pc' = "route"
    /\ UNCHANGED << inputs, bidx, curr_p_finish, curr_t_finish, result,
                    last, finish, sweep >>

\* lines 66 and 84 with check_feasibility false
CheckCustomersSkipped ==
    /\ pc = "start"
    /\ ~check_feasibility
    /\ coverage' = "skipped"
    /\ makespan' = 0
    /\ plant' = 0
    /\ pc' = "route"
    /\ UNCHANGED << inputs, bidx, curr_p_finish, curr_t_finish, result,
                    last, finish, sweep >>

\* lines 87-92: the next plant's route starts
BeginRoute ==
    /\ pc = "route"
    /\ plant < Len(solution)
    /\ curr_p_finish' = 0
    /\ curr_t_finish' = 0
    /\ bidx' = 1
    /\ pc' = "batch"
    /\ UNCHANGED << inputs, plant, makespan, result, coverage, last,
                    finish, sweep >>

\* the batch the loop of line 94 is at
CurrentBatch == solution[plant + 1][bidx]
CurrentStep ==
    BatchStep(locations, capacity, lifespan, rate, rounding_func,
              check_feasibility, plant, CurrentBatch,
              curr_p_finish, curr_t_finish)

\* lines 95 and 104: an exception leaves evaluate
BatchFault ==
    /\ pc = "batch"
    /\ bidx <= Len(solution[plant + 1])
    /\ CurrentStep.end = FAULT
    /\ result' = Ended(FAULT)
    /\ pc' = "done"
    /\ UNCHANGED << inputs, plant, bidx, curr_p_finish, curr_t_finish,
                    makespan, coverage, last, finish, sweep >>

\* lines 97-100 and 107-110: a return taken
BatchInfeasible ==
    /\ pc = "batch"
    /\ bidx <= Len(solution[plant + 1])
    /\ CurrentStep.end = INF_RETURN
    /\ last' = CurrentStep
    /\ result' = Ended(INF_RETURN)
    /\ pc' = "done"
    /\ UNCHANGED << inputs, plant, bidx, curr_p_finish, curr_t_finish,
                    makespan, coverage, finish, sweep >>

\* lines 95-132, no return taken: the batch is scheduled
BatchScheduled ==
    /\ pc = "batch"
    /\ bidx <= Len(solution[plant + 1])
    /\ CurrentStep.end = "ok"
    /\ last' = CurrentStep
    /\ curr_p_finish' = CurrentStep.next_p
    /\ curr_t_finish' = CurrentStep.next_t
    /\ bidx' = bidx + 1
    /\ UNCHANGED << inputs, pc, plant, makespan, result, coverage,
                    finish, sweep >>

\* EndRoute with the finish times of the routes added up
EndRouteSum ==
    /\ pc = "batch"
    /\ bidx > Len(solution[plant + 1])
    /\ makespan' = makespan + curr_t_finish
    /\ finish' = Append(finish, curr_t_finish)
    /\ plant' = plant + 1
    /\ pc' = "route"
    /\ UNCHANGED << inputs, bidx, curr_p_finish, curr_t_finish, result,
                    coverage, last, sweep >>

\* line 134: the route is over
EndRoute ==
    /\ pc = "batch"
    /\ bidx > Len(solution[plant + 1])
    /\ makespan' = Max(makespan, curr_t_finish)
    /\ finish' = Append(finish, curr_t_finish)
    /\ plant' = plant + 1
    /\ pc' = "route"
    /\ UNCHANGED << inputs, bidx, curr_p_finish, curr_t_finish, result,
                    coverage, last, sweep >>

\* line 139
ReturnMakespan ==
    /\ pc = "route"
    /\ plant = Len(solution)
    /\ result' = Returned(makespan)
    /\ pc' = "done"
    /\ UNCHANGED << inputs, plant, bidx, curr_p_finish, curr_t_finish,
                    makespan, coverage, last, finish, sweep >>

Next ==
    \/ CheckCustomersFail
    \/ CheckCustomersPass
    \/ CheckCustomersSkipped
    \/ BeginRoute
    \/ BatchFault
    \/ BatchInfeasible
    \/ BatchScheduled
    \/ EndRoute
    \/ ReturnMakespan

Spec == Init /\ [][Next]_vars
SchedSpec == SchedInit /\ [][Next]_vars

----------------------------------------------------------------------------
(* evaluate as a function of its arguments *)

RECURSIVE RouteFinish(_, _, _, _, _, _, _, _, _, _, _)
\* lines 94-134 after the batch k of the route, which ended as step
RouteAfter(locs, cap, life, r, rf, chk, p, route, k, step) ==
    IF step.end = "ok"
    THEN RouteFinish(locs, cap, life, r, rf, chk, p, route, k + 1,
                     step.next_p, step.next_t)
    ELSE Ended(step.end)

\* lines 91-134 for the route of plant p from its batch k on, the state being
\* (cp, ct): the final curr_t_finish, or how evaluate ends in the route
RouteFinish(locs, cap, life, r, rf, chk, p, route, k, cp, ct) ==
    IF k > Len(route) THEN Returned(ct)
    ELSE RouteAfter(locs, cap, life, r, rf, chk, p, route, k,
                    BatchStep(locs, cap, life, r, rf, chk, p, route[k], cp, ct))

RECURSIVE PlantsFrom(_, _, _, _, _, _, _, _, _)
\* lines 87-139 after the route of plant p, which ended as f
PlantsAfter(locs, cap, life, r, sol, rf, chk, p, m, f) ==
    IF f.end # "ok" THEN f
    ELSE PlantsFrom(locs, cap, life, r, sol, rf, chk, p + 1, Max(m, f.value))

\* lines 87-139 from plant p on, makespan being m
PlantsFrom(locs, cap, life, r, sol, rf, chk, p, m) ==
    IF p >= Len(sol) THEN Returned(m)
    ELSE PlantsAfter(locs, cap, life, r, sol, rf, chk, p, m,
                     RouteFinish(locs, cap, life, r, rf, chk, p, sol[p + 1],
                                 1, 0, 0))

\* lines 63-139
Evaluate(locs, cap, life, r, sol, rf, chk) ==
    IF chk /\ ~CoveragePasses(locs, sol) THEN Ended(INF_RETURN)
    ELSE PlantsFrom(locs, cap, life, r, sol, rf, chk, 0, 0)

\* the state machine computes the function
StepsComputeEvaluate ==
    pc = "done" =>
        result = Evaluate(locations, capacity, lifespan, rate, solution,
                          rounding_func, check_feasibility)


----------------------------------------------------------------------------
(* The parameter-sweep drivers, lines 212-367 *)

GeismarDrivers == {"geismar_vns", "geismar_bestknown"}
Drivers == GeismarDrivers \cup {"geismar_lacomme", "canatasagun_vns"}

\* the instance the drivers read: one plant and one customer of demand 4
SweepInstance == << PlantRecord, CustomerKinds[2] >>

\* product(capacities, lifespans, rates), in the order of the loop
SweepCombinations ==
    << << 4 * One - EPS_VALUE, 2 * One, 1 >>, << 4 * One, 2 * One, 1 >> >>

\* the replications of line 288
Replications == << 1, 2, 3, 4, 5 >>

\* a solution file: missing, or the JSON text of a route (Geismar) or of a
\* solution (Can Atasagun)
MissingFile == [exists |-> FALSE]
RouteTexts  == { << <<1>> >>, << >>, << << >>, <<1>> >> }
SolutionFiles(driver) ==
    {MissingFile}
    \cup {[exists |-> TRUE,
           content |-> IF driver = "canatasagun_vns" THEN <<route>> ELSE route] :
             route \in RouteTexts}

\* lines 184-187: the route read is made the only route of a solution
read_solution_for_geismar_instance(file) == << file.content >>
\* lines 207-210
read_solution_for_canatasagun_instance(file) == file.content

SweepInit ==
    /\ sweep \in {[driver |-> d, state |-> "running", read |-> FALSE,
                   pos |-> 1, rep |-> 1, values |-> <<>>, rows |-> <<>>,
                   floor_infeasible_cases |-> <<>>,
                   round_infeasible_cases |-> <<>>,
                   check_feasibility |-> chk] :
                     d \in Drivers, chk \in BOOLEAN}
    /\ sweep.driver # "geismar_lacomme" => sweep.check_feasibility
    /\ locations = <<>>
    /\ capacity = 0
    /\ lifespan = 0
    /\ rate = 1
    /\ solution = <<>>
    /\ rounding_func = "round2"
    /\ check_feasibility = TRUE
    /\ pc = "sweep"
    /\ plant = 0
    /\ bidx = 1
    /\ curr_p_finish = 0
    /\ curr_t_finish = 0
    /\ makespan = 0
    /\ result = Ended(NONE)
    /\ coverage = NONE
    /\ last = NoBatch
    /\ finish = <<>>

evaluation == << capacity, lifespan, rate, solution, rounding_func,
                 check_feasibility, pc, plant, bidx, curr_p_finish,
                 curr_t_finish, makespan, result, coverage, last, finish >>

Sweeping == pc = "sweep" /\ sweep.state = "running"
AtCombination == Sweeping /\ sweep.read /\ sweep.pos <= Len(SweepCombinations)
Combination == SweepCombinations[sweep.pos]

\* the call of evaluate of a driver on the combination it is at
SweepEvaluate(sol, rf, chk) ==
    Evaluate(locations, Combination[1], Combination[2], Combination[3],
             sol, rf, chk)

\* lines 229, 252, 284, 359: the instance file is read
SweepReadInstance ==
    /\ Sweeping
    /\ ~sweep.read
    /\ locations' = SweepInstance
    /\ sweep' = [sweep EXCEPT !.read = TRUE]
    /\ UNCHANGED evaluation

\* the same lines: open raises, no handler is around them
SweepReadInstanceRaises ==
    /\ Sweeping
    /\ ~sweep.read
    /\ sweep' = [sweep EXCEPT !.state = "raised reading the instance"]
    /\ UNCHANGED << locations, evaluation >>

\* the row of a combination
Row(value) == [key |-> Combination, value |-> value]

\* line 235, 259, 304 or 365: the row is written, the loop goes on
WriteRow(value) ==
    sweep' = [sweep EXCEPT !.rows = Append(@, Row(value)),
                           !.values = <<>>, !.rep = 1, !.pos = @ + 1]

\* an exception leaves the driver
Raise == sweep' = [sweep EXCEPT !.state = "raised at a combination"]

\* lines 231-235 and 361-365: the solution is read and evaluated, the row is
\* written; or open or evaluate raises, no handler being around them
GeismarWrite(value) == IF value.end = FAULT THEN Raise ELSE WriteRow(value)
GeismarCombination ==
    /\ AtCombination
    /\ sweep.driver \in GeismarDrivers
    /\ \E file \in SolutionFiles(sweep.driver) :
          IF file.exists
          THEN GeismarWrite(SweepEvaluate(read_solution_for_geismar_instance(file),
                                          rounding_func, TRUE))
          ELSE Raise
    /\ UNCHANGED << locations, evaluation >>

\* lines 255-261: the try block runs to its end; or open or evaluate raises
\* and the except block writes the row
CanatasagunWrite(value) ==
    IF value.end = FAULT THEN WriteRow(Ended("-")) ELSE WriteRow(value)
CanatasagunCombination ==
    /\ AtCombination
    /\ sweep.driver = "canatasagun_vns"
    /\ \E file \in SolutionFiles(sweep.driver) :
          IF file.exists
          THEN CanatasagunWrite(
                   SweepEvaluate(read_solution_for_canatasagun_instance(file),
                                 rounding_func, TRUE))
          ELSE WriteRow(Ended("-"))
    /\ UNCHANGED << locations, evaluation >>

AtReplication ==
    /\ AtCombination
    /\ sweep.driver = "geismar_lacomme"
    /\ sweep.rep <= Len(Replications)

\* lines 295-302, the three values of the replication being these
LacommeValues(origi_value, round_value, floor_value) ==
    IF FAULT \in {origi_value.end, round_value.end, floor_value.end}
    THEN Raise
    ELSE sweep' = [sweep EXCEPT
             !.values = @ \o << origi_value, round_value, floor_value >>,
             !.floor_infeasible_cases =
                 IF floor_value.end = INF_RETURN
                 THEN Append(@, Combination \o << Replications[sweep.rep] >>)
                 ELSE @,
             !.round_infeasible_cases =
                 IF floor_value.end # INF_RETURN /\ round_value.end = INF_RETURN
                 THEN Append(@, Combination \o << Replications[sweep.rep] >>)
                 ELSE @,
             !.rep = @ + 1]

\* lines 289-302: one replication is read and evaluated three times; or open
\* or evaluate raises, no handler being around them
LacommeEvaluate(sol) ==
    LacommeValues(SweepEvaluate(sol, "none", sweep.check_feasibility),
                  SweepEvaluate(sol, "round2", sweep.check_feasibility),
                  SweepEvaluate(sol, "floor", sweep.check_feasibility))
LacommeReplication ==
    /\ AtReplication
    /\ \E file \in SolutionFiles(sweep.driver) :
          IF file.exists
          THEN LacommeEvaluate(read_solution_for_geismar_instance(file))
          ELSE Raise
    /\ UNCHANGED << locations, evaluation >>

\* line 304: the row of the combination, the values of all its replications
LacommeRow ==
    /\ AtCombination
    /\ sweep.driver = "geismar_lacomme"
    /\ sweep.rep > Len(Replications)
    /\ WriteRow(sweep.values)
    /\ UNCHANGED << locations, evaluation >>

\* lines 237, 263, 310, 367: the loops are over
SweepDone ==
    /\ Sweeping
    /\ sweep.read
    /\ sweep.pos > Len(SweepCombinations)
    /\ sweep' = [sweep EXCEPT !.state = "done"]
    /\ UNCHANGED << locations, evaluation >>

SweepNext ==
    \/ SweepReadInstance
    \/ SweepReadInstanceRaises
    \/ GeismarCombination
    \/ CanatasagunCombination
    \/ LacommeReplication
    \/ LacommeRow
    \/ SweepDone

SweepSpec == SweepInit /\ [][SweepNext]_vars

----------------------------------------------------------------------------
(* Properties *)

nplants == Len(solution)

\* how often v is written in seq
Count(seq, v) == Cardinality({k \in 1..Len(seq) : seq[k] = v})

\* every index written is a customer, and every customer is written once
ExactCover ==
    LET visits == VisitedCustomers(solution)
    IN  /\ \A k \in 1..Len(visits) :
               nplants <= visits[k] /\ visits[k] <= Len(locations) - 1
        /\ \A c \in nplants..(Len(locations) - 1) : Count(visits, c) = 1

\* C1: with check_feasibility, the customer check passes exactly when the
\* indices written in the solution are the customers nplants..len-1, each
\* once; otherwise evaluate returns INF_RETURN.
C1_CoverageCheck ==
    (check_feasibility /\ pc # "start") =>
        /\ coverage \in {"pass", "fail"}
        /\ coverage = "pass" <=> ExactCover
        /\ ~ExactCover => (pc = "done" /\ result = Ended(INF_RETURN))

\* the right number of indices, two customers, and still not a cover: an index
\* is written twice or is no customer
C1_Witness ==
    /\ pc = "done"
    /\ coverage = "fail"
    /\ Len(locations) - nplants = 2
    /\ Len(VisitedCustomers(solution)) = 2

\* the batch scheduled last, when the loop of line 94 has scheduled one
BatchDone == pc = "batch" /\ bidx > 1 /\ last.end = "ok"
DoneBatch == solution[plant + 1][bidx - 1]

\* C2: the state update of a batch: with earliest = curr_p_finish + p_time, if
\* curr_t_finish <= earliest the batch leaves at earliest, else it leaves at
\* curr_t_finish and its production finish is max(earliest, curr_t_finish -
\* max_delay); a route of one batch finishes at p_time + t_full.
C2_TimelineMerge ==
    BatchDone =>
        LET earliest == last.prev_p + last.p_time
        IN  /\ last.p_time * rate = SumDemand(locations, DoneBatch)
            /\ curr_p_finish = last.next_p
            /\ curr_t_finish = last.next_t
            /\ IF last.prev_t <= earliest
               THEN /\ last.next_p = earliest
                    /\ last.next_t = earliest + last.t_full
               ELSE /\ last.next_t = last.prev_t + last.t_full
                    /\ last.next_p = Max(earliest, last.prev_t - last.max_delay)
            /\ bidx = 2 => curr_t_finish = last.p_time + last.t_full

\* a second batch whose production is over before the vehicle is back, and
\* whose recorded production finish is delayed by the max_delay formula
C2_Witness ==
    /\ BatchDone
    /\ bidx = 3
    /\ last.prev_t > last.prev_p + last.p_time
    /\ last.next_p > last.prev_p + last.p_time
    /\ last.next_p < last.prev_t
    /\ curr_t_finish = last.prev_t + last.t_full

\* some batch of the solution exceeds the capacity or the lifespan limit
BatchExceeds(p, batch) ==
    \/ capacity + EPS_VALUE <= SumDemand(locations, batch)
    \/ /\ batch # <<>>
       /\ lifespan + EPS_VALUE <= OutboundTime(locations, p, batch, rounding_func)
SomeBatchExceeds ==
    \E p \in 1..Len(solution) : \E k \in 1..Len(solution[p]) :
        BatchExceeds(p - 1, solution[p][k])

\* C3: with check_feasibility and the customer check passed, evaluate returns
\* INF_RETURN exactly when some batch has sum(demand) >= capacity + eps or
\* outbound time >= lifespan + eps.
C3_InfeasibleIff ==
    (pc = "done" /\ check_feasibility /\ coverage = "pass") =>
        (result = Ended(INF_RETURN) <=> SomeBatchExceeds)

\* the same, for the solutions without an empty batch
NoEmptyBatch ==
    \A p \in 1..Len(solution) : \A k \in 1..Len(solution[p]) :
        solution[p][k] # <<>>
InfeasibleIffNoEmptyBatch ==
    (pc = "done" /\ check_feasibility /\ coverage = "pass" /\ NoEmptyBatch) =>
        (result = Ended(INF_RETURN) <=> SomeBatchExceeds)

\* the capacity limit: a sum of capacity is accepted, capacity + eps is not
CapacityBoundary ==
    /\ (BatchDone /\ check_feasibility) =>
           SumDemand(locations, DoneBatch) < capacity + EPS_VALUE
    /\ (pc = "done" /\ last.end = INF_RETURN /\ last.why = "capacity") =>
           SumDemand(locations, solution[plant + 1][bidx]) >= capacity + EPS_VALUE
AcceptedAtCapacity ==
    BatchDone /\ check_feasibility
    /\ SumDemand(locations, DoneBatch) = capacity
RejectedAtCapacityPlusEps ==
    pc = "done" /\ last.end = INF_RETURN /\ last.why = "capacity"
    /\ SumDemand(locations, solution[plant + 1][bidx]) = capacity + EPS_VALUE

RECURSIVE PathTime(_, _, _)
\* the time from location a along the first k indices of batch, every leg
\* rounded on its own
PathTime(a, batch, k) ==
    IF k = 0 THEN 0
    ELSE PathTime(a, batch, k - 1)
         + Rounded(rounding_func,
                   Dist2(locations, IF k = 1 THEN a ELSE batch[k - 1], batch[k]))

\* C4: with check_feasibility, a batch is rejected for its lifespan exactly
\* when the time from the plant to its last customer is >= lifespan + eps;
\* the return leg is added to t_full only.
C4_LifespanOnOutbound ==
    /\ (BatchDone /\ check_feasibility) =>
           PathTime(plant, DoneBatch, Len(DoneBatch)) < lifespan + EPS_VALUE
    /\ BatchDone =>
           /\ last.t_out = PathTime(plant, DoneBatch, Len(DoneBatch))
           /\ last.t_full = last.t_out
                + Rounded(rounding_func,
                          Dist2(locations, DoneBatch[Len(DoneBatch)], plant))
    /\ (pc = "done" /\ last.end = INF_RETURN /\ last.why = "lifespan") =>
           LET batch == solution[plant + 1][bidx]
           IN  PathTime(plant, batch, Len(batch)) >= lifespan + EPS_VALUE

\* a batch of two customers accepted although its round trip exceeds the limit
C4_Witness ==
    /\ BatchDone
    /\ check_feasibility
    /\ Len(DoneBatch) = 2
    /\ last.t_out < lifespan + EPS_VALUE
    /\ last.t_full >= lifespan + EPS_VALUE

RECURSIVE MaxOf(_)
\* the largest number of seq, 0 for the empty one
MaxOf(seq) == IF seq = <<>> THEN 0 ELSE Max(Head(seq), MaxOf(Tail(seq)))

\* the finish time of the route of plant p (1-based here), simulated alone
\* from curr_p_finish = curr_t_finish = 0
AloneFinish(p) ==
    RouteFinish(locations, capacity, lifespan, rate, rounding_func,
                check_feasibility, p - 1, solution[p], 1, 0, 0)

\* C5: a makespan returned is the maximum over the plants of the plant's final
\* curr_t_finish; each of them is what the plant's own route gives from
\* (0, 0), whatever the other routes are; routes that are all empty give 0.
C5_MakespanIsMax ==
    (pc = "done" /\ result.end = "ok") =>
        /\ Len(finish) = nplants
        /\ result.value = MaxOf(finish)
        /\ \A p \in 1..nplants : AloneFinish(p) = Returned(finish[p])
        /\ (\A p \in 1..nplants : solution[p] = <<>>) => result.value = 0

\* two plants with routes of different finish times, accepted as feasible
C5_Witness ==
    /\ pc = "done"
    /\ result.end = "ok"
    /\ check_feasibility
    /\ nplants = 2
    /\ finish[1] > finish[2]
    /\ finish[2] > 0
    /\ result.value = finish[1]

EvaluateAtRate(r) ==
    Evaluate(locations, capacity, lifespan, r, solution, rounding_func,
             check_feasibility)

\* C6: when evaluate returns a makespan at rate r, it returns one at rate 2r
\* as well, and that one is not larger.
C6_RateMonotone ==
    (pc = "done" /\ result.end = "ok") =>
        /\ EvaluateAtRate(2 * rate).end = "ok"
        /\ EvaluateAtRate(2 * rate).value <= result.value

\* a feasible route of three batches: the second was produced later than
\* back to back (the delayed branch), the third left when its production
\* ended, and the makespan at the double rate is smaller
C6_Witness ==
    /\ pc = "done"
    /\ result.end = "ok"
    /\ check_feasibility
    /\ nplants = 1
    /\ Len(solution[1]) = 3
    /\ last.prev_p * rate >
           SumDemand(locations, solution[1][1]) + SumDemand(locations, solution[1][2])
    /\ last.prev_t < last.prev_p + last.p_time
    /\ EvaluateAtRate(2 * rate).value < result.value

\* C7 as claimed: without check_feasibility a batch over the capacity or the
\* lifespan limit still ends evaluate with INF_RETURN, so no makespan is
\* returned for a solution that has such a batch.
C7_UncheckedLimitsPropagate ==
    (pc = "done" /\ ~check_feasibility /\ result.end = "ok") => ~SomeBatchExceeds

\* C7 as amended: without check_feasibility evaluate makes neither the
\* customer check nor the capacity and lifespan checks; it never returns
\* INF_RETURN, whatever the batches.
C7_UncheckedNeverInfeasible ==
    ~check_feasibility =>
        /\ coverage \in {NONE, "skipped"}
        /\ result.end # INF_RETURN
        /\ last.end # INF_RETURN

\* a makespan returned without check_feasibility for a solution with a batch
\* over a limit
C7_Witness ==
    /\ pc = "done"
    /\ ~check_feasibility
    /\ result.end = "ok"
    /\ SomeBatchExceeds

\* C9: with check_feasibility, a scheduled batch waits between its recorded
\* production finish and the departure of the vehicle at least 0 and at most
\* max_delay = max(0, lifespan - t_out); waiting plus t_out stays below
\* lifespan + eps.
C9_Freshness ==
    (BatchDone /\ check_feasibility) =>
        LET waiting == (last.next_t - last.t_full) - last.next_p
        IN  /\ last.max_delay = Max(0, lifespan - last.t_out)
            /\ waiting >= 0
            /\ waiting <= last.max_delay
            /\ waiting + last.t_out < lifespan + EPS_VALUE

\* a batch that waits for the vehicle exactly max_delay > 0, its production
\* being delayed for it
C9_Witness ==
    /\ BatchDone
    /\ check_feasibility
    /\ last.max_delay > 0
    /\ (last.next_t - last.t_full) - last.next_p = last.max_delay
    /\ last.next_p > last.prev_p + last.p_time

\* C10: after every batch curr_p_finish <= curr_t_finish; the batch's
\* production starts no earlier than the previous production finish, and the
\* vehicle leaves no earlier than it came back; both timelines never go back.
C10_ScheduleConsistent ==
    /\ curr_p_finish <= curr_t_finish
    /\ BatchDone =>
           /\ last.next_p - last.p_time >= last.prev_p
           /\ last.next_t - last.t_full >= last.prev_t
           /\ last.next_p >= last.prev_p
           /\ last.next_t >= last.prev_t

\* the third batch of a route, produced after a pause of the line
C10_Witness ==
    /\ BatchDone
    /\ bidx = 4
    /\ last.next_p - last.p_time > last.prev_p
    /\ last.next_t - last.t_full > last.next_p

\* C8: in every sweep driver, a combination that fails (an infeasible
\* solution, or an exception while its solution is read or evaluated) does not
\* end the sweep: the driver goes on, and every combination gets its row.
C8_SweepSurvivesFailures ==
    pc = "sweep" =>
        /\ sweep.state # "raised at a combination"
        /\ Len(sweep.rows) = sweep.pos - 1
        /\ sweep.state = "done" => Len(sweep.rows) = Len(SweepCombinations)

\* the same, of the driver of the Can Atasagun instances alone
CanatasagunSurvivesFailures ==
    (pc = "sweep" /\ sweep.driver = "canatasagun_vns") =>
        /\ sweep.state # "raised at a combination"
        /\ Len(sweep.rows) = sweep.pos - 1
        /\ sweep.state = "done" => Len(sweep.rows) = Len(SweepCombinations)

\* an infeasible solution alone ends no sweep: its row holds INF_RETURN
InfeasibleRowWritten ==
    /\ pc = "sweep"
    /\ sweep.driver \in GeismarDrivers
    /\ sweep.state = "done"
    /\ sweep.rows[1].value = Ended(INF_RETURN)

\* C11: with check_feasibility, evaluate ends with a non-negative makespan or
\* with INF_RETURN, and never with a raised exception.
C11_NeverFaults ==
    (pc = "done" /\ check_feasibility) =>
        \/ result = Ended(INF_RETURN)
        \/ result.end = "ok" /\ result.value >= 0

\* with check_feasibility the only exception is batch[0] of an empty batch
\* (line 104), met after the customer check has passed
FaultOnlyAtEmptyBatch ==
    (pc = "done" /\ check_feasibility /\ result = Ended(FAULT)) =>
        /\ coverage = "pass"
        /\ CurrentBatch = <<>>
NoFaultWithoutEmptyBatch ==
    (pc = "done" /\ check_feasibility /\ NoEmptyBatch) =>
        \/ result = Ended(INF_RETURN)
        \/ result.end = "ok" /\ result.value >= 0
EmptyBatchNextToCover ==
    /\ pc = "done" /\ check_feasibility /\ result = Ended(FAULT)
    /\ Len(locations) > nplants
    /\ ExactCover
    /\ \E k \in 1..Len(solution[plant + 1]) : solution[plant + 1][k] # <<>>

====
